---- MODULE Spec2Model ----
(***************************************************************************)
(* Continuous exponential-decay vesting: the RewardBucket account of       *)
(* src/src/main.rs (TokenStream of src/src/token_stream.rs is the same     *)
(* code) driven by the thread-local TestClock.                             *)
(*                                                                         *)
(* Number representation.  u128 and u64 are kept as saturating integers of *)
(* a smaller width (U128_MAX, U64_MAX).  An f64 keeps F64_MANT significant *)
(* bits (53 in the code): an integer of more bits is rounded to the        *)
(* nearest representable one, ties to even, by `as f64` and by the f64     *)
(* product.  The decay rate is held as the half-life h in clock ticks, the *)
(* rate being ln(2)/h, so that exp(-rate*dt) = 2^(-dt/h) and               *)
(* floor(p * 2^(-dt/h)) is the largest k with k^h * 2^dt <= p^h, computed  *)
(* exactly in integers.  exp itself is taken as exact: the last-place      *)
(* error of the library exp, and the rounding of a product below           *)
(* 2^F64_MANT to its fractional grid, are not modelled.                    *)
(***************************************************************************)
EXTENDS Integers, Sequences, FiniteSets, TLC

VARIABLES t, b, op, arg, ret, run

vars == <<t, b, op, arg, ret, run>>

\* ---- widths and input ranges ------------------------------------------
U128_MAX == 12
U64_MAX == 3
F64_MANT == 3
MAX_HALF_LIFE == 2

Amounts == 0..U128_MAX
Times == 0..U64_MAX
HalfLives == 1..MAX_HALF_LIFE

\* ---- integer helpers ---------------------------------------------------
RECURSIVE Pow(_, _)
Pow(x, n) == IF n = 0 THEN 1 ELSE x * Pow(x, n - 1)

RECURSIVE BitLen(_)
BitLen(n) == IF n = 0 THEN 0 ELSE 1 + BitLen(n \div 2)

\* u128::saturating_add / u64::saturating_add
saturating_add(x, y, max) == IF x + y > max THEN max ELSE x + y

\* saturating_sub
saturating_sub(x, y) == IF x > y THEN x - y ELSE 0

\* ---- f64 ---------------------------------------------------------------
\* Spacing of the f64 grid at the integer n.
Ulp(n) == IF BitLen(n) > F64_MANT THEN Pow(2, BitLen(n) - F64_MANT) ELSE 1

\* `n as f64`: round to nearest representable, ties to even.
as_f64(n) ==
    LET u == Ulp(n)
        q == n \div u
        r == n % u
    IN  IF 2 * r < u \/ (2 * r = u /\ q % 2 = 0) THEN q * u ELSE (q + 1) * u

\* `x as u128` of a non-negative integral f64: saturating cast.
f64_as_u128(x) == IF x > U128_MAX THEN U128_MAX ELSE x

\* pf * 2^(-dt/h) >= k, over the reals.
DecayGe(pf, h, dt, k) == Pow(pf, h) >= Pow(k, h) * Pow(2, dt)

\* floor(pf * 2^(-dt/h)) over the reals.
ExactDecay(pf, h, dt) ==
    CHOOSE k \in 0..pf : DecayGe(pf, h, dt, k) /\ ~DecayGe(pf, h, dt, k + 1)

\* Variant of decay_floor: the product is rounded up (ceil) instead of down.
decay_ceil(pf, h, dt) ==
    LET k == ExactDecay(pf, h, dt)
    IN  IF Pow(pf, h) = Pow(k, h) * Pow(2, dt) THEN k ELSE k + 1

\* (pf * exp(-rate * dt)).floor() with rate = ln(2)/h: the real product
\* rounded to the f64 grid, then floored.
DecayRound(pf, h, dt) ==
    LET k == ExactDecay(pf, h, dt)
        u == Ulp(k)
        lo == (k \div u) * u
        mid == lo + (u \div 2)
        tie == Pow(pf, h) = Pow(mid, h) * Pow(2, dt)
    IN  IF u = 1 THEN k
        ELSE IF DecayGe(pf, h, dt, mid) /\ ~(tie /\ (lo \div u) % 2 = 0)
             THEN lo + u
             ELSE lo

\* The same, tabulated over every f64 value an amount or an elapsed time
\* converts to.
DecayTable ==
    [ pf \in 0..(2 * U128_MAX) |->
        [ h \in HalfLives |->
            [ dt \in 0..(2 * U64_MAX) |-> DecayRound(pf, h, dt) ] ] ]

decay_floor(pf, h, dt) == DecayTable[pf][h][dt]

\* ---- clock (TestClock) -------------------------------------------------
\* Variant of clock_wait: wrapping instead of saturating addition.
clock_wait_wrapping(now, secs) == (now + secs) % (U64_MAX + 1)

\* TestClock::wait: self.t = self.t.saturating_add(secs)
clock_wait(now, secs) == saturating_add(now, secs, U64_MAX)

\* ---- account (RewardBucket / TokenStream) ------------------------------
\* LN_2 / (days * SECONDS_PER_DAY): the rate, held as its half-life in ticks.
decay_rate_from_half_life(ticks) == ticks

\* Variant of new: the timestamp starts at a "never settled" sentinel
\* instead of the Default.
new_sentinel_timestamp(decay_rate_per_second) ==
    [ decay_rate_per_second |-> decay_rate_per_second,
      total_deposited |-> 0,
      total_claimed |-> 0,
      last_update_principal |-> 0,
      last_update_timestamp |-> U64_MAX ]

\* RewardBucket::new: the given rate, every other field Default (0).
new(decay_rate_per_second) ==
    [ decay_rate_per_second |-> decay_rate_per_second,
      total_deposited |-> 0,
      total_claimed |-> 0,
      last_update_principal |-> 0,
      last_update_timestamp |-> 0 ]

balance_still_vesting(s, now) ==
    IF s.last_update_principal = 0 THEN 0
    ELSE LET dt == as_f64(saturating_sub(now, s.last_update_timestamp))
         IN  f64_as_u128(decay_floor(as_f64(s.last_update_principal),
                                     s.decay_rate_per_second, dt))

total_vested(s, now) ==
    saturating_sub(s.total_deposited, balance_still_vesting(s, now))

balance_claimable(s, now) ==
    saturating_sub(total_vested(s, now), s.total_claimed)

unclaimed_total(s) == saturating_sub(s.total_deposited, s.total_claimed)

\* Variant of settle: the timestamp is reset but the decayed principal is
\* not stored.
settle_keeps_principal(s, now) ==
    [ s EXCEPT !.last_update_timestamp = now ]

\* Variant of settle: the decayed principal is stored but the timestamp
\* is not reset.
settle_keeps_timestamp(s, now) ==
    [ s EXCEPT !.last_update_principal = balance_still_vesting(s, now) ]

\* settle: the account after it; the value returned is its
\* last_update_principal.
settle(s, now) ==
    [ s EXCEPT !.last_update_principal = balance_still_vesting(s, now),
               !.last_update_timestamp = now ]

\* Variant of deposit: the new principal is the amount alone, what was
\* still vesting being dropped.
deposit_drops_remaining(s, now, amount) ==
    LET s1 == settle(s, now)
    IN  [ s1 EXCEPT
            !.last_update_principal = amount,
            !.total_deposited = saturating_add(s1.total_deposited, amount, U128_MAX) ]

\* Variant of deposit: wrapping instead of saturating addition.
deposit_wrapping_add(s, now, amount) ==
    LET s1 == settle(s, now)
        p_now == s1.last_update_principal
    IN  [ s1 EXCEPT
            !.last_update_principal = (p_now + amount) % (U128_MAX + 1),
            !.total_deposited = (s1.total_deposited + amount) % (U128_MAX + 1) ]

deposit(s, now, amount) ==
    LET s1 == settle(s, now)
        p_now == s1.last_update_principal
    IN  [ s1 EXCEPT
            !.last_update_principal = saturating_add(p_now, amount, U128_MAX),
            !.total_deposited = saturating_add(s1.total_deposited, amount, U128_MAX) ]

\* Variant of claim: the amount paid out is also taken off the settled
\* principal.
claim_drains_principal(s, now) ==
    LET s1 == settle(s, now)
        p_now == s1.last_update_principal
        amt == saturating_sub(saturating_sub(s1.total_deposited, s1.total_claimed), p_now)
    IN  [ acct |-> [ s1 EXCEPT !.total_claimed =
                                  saturating_add(s1.total_claimed, amt, U128_MAX),
                               !.last_update_principal = saturating_sub(p_now, amt) ],
          amt |-> amt ]

\* Variant of claim: the amount is taken from total_deposited without
\* subtracting what was already claimed.
claim_ignoring_claimed(s, now) ==
    LET s1 == settle(s, now)
        p_now == s1.last_update_principal
        amt == saturating_sub(s1.total_deposited, p_now)
    IN  [ acct |-> [ s1 EXCEPT !.total_claimed =
                                  saturating_add(s1.total_claimed, amt, U128_MAX) ],
          amt |-> amt ]

\* Variant of claim: wrapping instead of saturating subtraction.
claim_wrapping_sub(s, now) ==
    LET s1 == settle(s, now)
        p_now == s1.last_update_principal
        amt == (s1.total_deposited - s1.total_claimed - p_now) % (U128_MAX + 1)
    IN  [ acct |-> [ s1 EXCEPT !.total_claimed =
                                  saturating_add(s1.total_claimed, amt, U128_MAX) ],
          amt |-> amt ]

\* Variant of claim: the amount is computed from the stale snapshot, the
\* settled principal being stored but not used.
claim_stale_principal(s, now) ==
    LET s1 == settle(s, now)
        p_now == s.last_update_principal
        amt == saturating_sub(saturating_sub(s1.total_deposited, s1.total_claimed), p_now)
    IN  [ acct |-> [ s1 EXCEPT !.total_claimed =
                                  saturating_add(s1.total_claimed, amt, U128_MAX) ],
          amt |-> amt ]

\* claim: the account after it (acct) and the amount returned (amt).
claim(s, now) ==
    LET s1 == settle(s, now)
        p_now == s1.last_update_principal
        amt == saturating_sub(saturating_sub(s1.total_deposited, s1.total_claimed), p_now)
    IN  [ acct |-> [ s1 EXCEPT !.total_claimed =
                                  saturating_add(s1.total_claimed, amt, U128_MAX) ],
          amt |-> amt ]

\* Variant of set_half_life: the rate is replaced without settling first.
set_half_life_no_settle(s, now, ticks) ==
    [ s EXCEPT !.decay_rate_per_second = decay_rate_from_half_life(ticks) ]

set_half_life(s, now, ticks) ==
    [ settle(s, now) EXCEPT !.decay_rate_per_second = decay_rate_from_half_life(ticks) ]

\* ---- the program: one account, one clock, any call sequence -----------
\* run: bookkeeping of the scripted run below; idle under Spec.
Idle == [ pc |-> "free", P |-> 0, t0 |-> 0, w1 |-> 0, w2 |-> 0, c1 |-> 0, c2 |-> 0 ]

Init ==
    /\ t = 0
    /\ \E h \in HalfLives : b = new(decay_rate_from_half_life(h))
    /\ op = "new"
    /\ arg = 0
    /\ ret = 0
    /\ run = Idle

Wait(secs) ==
    /\ t' = clock_wait(t, secs)
    /\ op' = "wait"
    /\ arg' = secs
    /\ ret' = 0
    /\ UNCHANGED b

ClockReset(ts) ==
    /\ t' = ts
    /\ op' = "clock_reset"
    /\ arg' = ts
    /\ ret' = 0
    /\ UNCHANGED b

Settle ==
    /\ b' = settle(b, t)
    /\ op' = "settle"
    /\ arg' = 0
    /\ ret' = b'.last_update_principal
    /\ UNCHANGED t

Deposit(amount) ==
    /\ b' = deposit(b, t, amount)
    /\ op' = "deposit"
    /\ arg' = amount
    /\ ret' = 0
    /\ UNCHANGED t

Claim ==
    /\ b' = claim(b, t).acct
    /\ op' = "claim"
    /\ arg' = 0
    /\ ret' = claim(b, t).amt
    /\ UNCHANGED t

SetHalfLife(ticks) ==
    /\ b' = set_half_life(b, t, ticks)
    /\ op' = "set_half_life"
    /\ arg' = ticks
    /\ ret' = 0
    /\ UNCHANGED t

Next ==
    \/ \E secs \in Times : Wait(secs) /\ UNCHANGED run
    \/ \E ts \in Times : ClockReset(ts) /\ UNCHANGED run
    \/ Settle /\ UNCHANGED run
    \/ \E amount \in Amounts : Deposit(amount) /\ UNCHANGED run
    \/ Claim /\ UNCHANGED run
    \/ \E h \in HalfLives : SetHalfLife(h) /\ UNCHANGED run

Spec == Init /\ [][Next]_vars

\* ---- a scripted run on a fresh account ---------------------------------
\* clock_reset(t0); new(rate); deposit(P); wait(w1); claim(); wait(w2);
\* claim()  -- the shape of tests::time_split_equivalence and
\* tests::continuous_basic, for every t0, rate, P, w1 and w2.
RunInit ==
    /\ t \in Times
    /\ \E h \in HalfLives : b = new(decay_rate_from_half_life(h))
    /\ op = "new"
    /\ arg = 0
    /\ ret = 0
    /\ run = [ Idle EXCEPT !.pc = "start", !.t0 = t ]

RunDeposit ==
    /\ run.pc = "start"
    /\ \E P \in Amounts : Deposit(P) /\ run' = [ run EXCEPT !.pc = "deposited", !.P = P ]

RunWait1 ==
    /\ run.pc = "deposited"
    /\ \E secs \in Times : Wait(secs) /\ run' = [ run EXCEPT !.pc = "waited1", !.w1 = secs ]

RunClaim1 ==
    /\ run.pc = "waited1"
    /\ Claim
    /\ run' = [ run EXCEPT !.pc = "claimed1", !.c1 = ret' ]

RunWait2 ==
    /\ run.pc = "claimed1"
    /\ \E secs \in Times : Wait(secs) /\ run' = [ run EXCEPT !.pc = "waited2", !.w2 = secs ]

RunClaim2 ==
    /\ run.pc = "waited2"
    /\ Claim
    /\ run' = [ run EXCEPT !.pc = "done", !.c2 = ret' ]

RunNext == RunDeposit \/ RunWait1 \/ RunClaim1 \/ RunWait2 \/ RunClaim2

RunSpec == RunInit /\ [][RunNext]_vars

\* What one claim() returns on a fresh account of the same rate after
\* clock_reset(t0); deposit(P); wait(secs).
SingleClaim(secs) ==
    claim(deposit(new(b.decay_rate_per_second), run.t0, run.P),
          clock_wait(run.t0, secs)).amt

\* ---- an account left to vest ------------------------------------------
\* new(rate); deposit(P) with P > 0 at any clock reading, then wait(secs)
\* with secs > 0 again and again, with settle(), claim() and
\* set_half_life() in between but no further deposit and no clock_reset
\* -- the shape of tests::dust_eventually_rounds_to_zero.
LiveInit ==
    /\ t \in Times
    /\ \E h \in HalfLives, P \in Amounts \ {0} :
          /\ b = deposit(new(decay_rate_from_half_life(h)), t, P)
          /\ arg = P
    /\ op = "deposit"
    /\ ret = 0
    /\ run = Idle

LiveWait == \E secs \in Times \ {0} : Wait(secs) /\ UNCHANGED run

LiveNext ==
    \/ LiveWait
    \/ Settle /\ UNCHANGED run
    \/ Claim /\ UNCHANGED run
    \/ \E h \in HalfLives : SetHalfLife(h) /\ UNCHANGED run

\* The caller keeps calling wait with a positive argument.
LiveSpec == LiveInit /\ [][LiveNext]_vars /\ WF_vars(LiveWait)

\* ---- derived quantities of the current state --------------------------
still_vesting == balance_still_vesting(b, t)
claimable == balance_claimable(b, t)

\* ---- claims -----------------------------------------------------------

\* C1: conservation. In every reachable state
\* total_deposited = total_claimed + still_vesting() + claimable().
C1_Conservation ==
    b.total_deposited = b.total_claimed + still_vesting + claimable

\* C2: total_claimed never exceeds total_deposited, whatever sequence of
\* deposits, claims, settles, half-life changes, clock advances and clock
\* resets led to the state; hence a claim adds at most
\* total_deposited - total_claimed.
C2_ClaimedAtMostDeposited ==
    /\ b.total_claimed <= b.total_deposited
    /\ op = "claim" => ret <= b.total_deposited - (b.total_claimed - ret)

\* C2 witness: a second or later claim has paid out a positive amount and
\* everything deposited is now claimed.
C2_Witness ==
    /\ op = "claim"
    /\ ret > 0
    /\ b.total_claimed > ret
    /\ b.total_claimed = b.total_deposited

\* C3: claim exactness. A claim() step returns what claimable() reported in
\* the state before it, adds exactly that to total_claimed, and leaves
\* claimable() = 0.
C3_ClaimExact ==
    [][ op' = "claim" =>
            /\ ret' = balance_claimable(b, t)
            /\ b'.total_claimed = b.total_claimed + ret'
            /\ balance_claimable(b', t') = 0 ]_vars

\* C3 witness: a claim paid a positive amount while part of the principal
\* is still vesting, and nothing is claimable after it.
C3_Witness ==
    /\ op = "claim"
    /\ ret > 0
    /\ still_vesting > 0
    /\ claimable = 0

F64Exact(n) == n < Pow(2, F64_MANT)

C5_DepositRebase ==
    [][ op' = "deposit" =>
            /\ balance_claimable(b', t') = balance_claimable(b, t)
            /\ balance_still_vesting(b', t') = balance_still_vesting(b, t) + arg' ]_vars

\* C6: decay correctness. On a fresh account, after deposit(P) and a clock
\* advance with no operation in between, still_vesting() is
\* floor(P * exp(-rate * elapsed)) and claimable() is P - still_vesting().
C6_DecayCorrect ==
    run.pc = "waited1" =>
        /\ still_vesting = ExactDecay(run.P, b.decay_rate_per_second, t - run.t0)
        /\ claimable = run.P - still_vesting

\* C7: no unreachable dust. A claim() step taken where still_vesting() = 0
\* returns total_deposited - total_claimed, and leaves
\* total_claimed = total_deposited and claimable() = 0.
C7_NoDust ==
    [][ (op' = "claim" /\ balance_still_vesting(b, t) = 0) =>
            /\ ret' = b.total_deposited - b.total_claimed
            /\ b'.total_claimed = b'.total_deposited
            /\ balance_claimable(b', t') = 0 ]_vars

\* C7 witness: after an earlier claim the rest decayed to 0, and a claim
\* then paid out the remainder.
C7_Witness ==
    /\ op = "claim"
    /\ ret > 0
    /\ b.total_claimed > ret
    /\ still_vesting = 0
    /\ b.last_update_principal = 0
    /\ b.total_claimed = b.total_deposited

\* C8: decay monotonicity. still_vesting() does not increase across a clock
\* advance, claim, settle or set_half_life step, and does not decrease
\* across a deposit step.
C8_DecayMonotone ==
    [][ /\ op' \in {"wait", "claim", "settle", "set_half_life"} =>
              balance_still_vesting(b', t') <= balance_still_vesting(b, t)
        /\ op' = "deposit" =>
              balance_still_vesting(b', t') >= balance_still_vesting(b, t) ]_vars

\* C8 witness: after a clock advance part, but not all, of the snapshot
\* principal has decayed.
C8_Witness ==
    /\ op = "wait"
    /\ arg > 0
    /\ still_vesting > 0
    /\ still_vesting < b.last_update_principal

\* C9: idempotent settlement. A settle() step that directly follows a
\* settle() step (no clock advance in between) returns the same value and
\* changes neither the account nor any quantity derived from it.
C9_SettleIdempotent ==
    [][ (op = "settle" /\ op' = "settle") =>
            /\ ret' = ret
            /\ b' = b
            /\ balance_still_vesting(b', t') = balance_still_vesting(b, t)
            /\ balance_claimable(b', t') = balance_claimable(b, t) ]_vars

\* C9 witness: a settle() has just stored a decayed, non-zero principal at
\* a later clock reading, so that a second settle() can follow it.
C9_Witness ==
    /\ op = "settle"
    /\ ret > 0
    /\ ret = b.last_update_principal
    /\ b.last_update_timestamp = t
    /\ t > 0
    /\ F64Exact(b.total_deposited)
    /\ b.total_deposited - b.total_claimed > ret

\* C10: monotonic saturating clock. A wait(secs) step sets now() to
\* min(U64_MAX, now() + secs): never less than before, never wrapped.
C10_ClockSaturates ==
    [][ op' = "wait" =>
            /\ t' = (IF t + arg' > U64_MAX THEN U64_MAX ELSE t + arg')
            /\ t' >= t
            /\ t' <= U64_MAX ]_vars

\* C10 witness: the clock sticks at the maximum after an advance that the
\* time since the last settlement shows to have overshot it.
C10_Witness ==
    /\ op = "wait"
    /\ t = U64_MAX
    /\ arg > 0
    /\ b.last_update_timestamp > 0
    /\ b.last_update_timestamp + arg > U64_MAX

\* C11: construction. Right after new(rate), at whatever clock reading the
\* account is created, total_deposited, total_claimed and
\* last_update_principal are 0 and last_update_timestamp is now().
C11_NewSnapshotIsNow ==
    op = "new" =>
        /\ b.total_deposited = 0
        /\ b.total_claimed = 0
        /\ b.last_update_principal = 0
        /\ b.last_update_timestamp = t

\* C11 as amended: right after new(rate) the three amounts are 0 and
\* last_update_timestamp is 0 whatever the clock reads; with a zero
\* principal still_vesting() and claimable() are 0 all the same.
C11_NewIsDefault ==
    op = "new" =>
        /\ b.total_deposited = 0
        /\ b.total_claimed = 0
        /\ b.last_update_principal = 0
        /\ b.last_update_timestamp = 0
        /\ b.decay_rate_per_second \in HalfLives
        /\ still_vesting = 0
        /\ claimable = 0

\* C11 witness: an account just created while the clock reads more than 0.
C11_Witness ==
    /\ op = "new"
    /\ t > 0
    /\ b = new(b.decay_rate_per_second)

\* C12: cumulative totals never decrease. Across every step total_deposited
\* and total_claimed are at least their previous value; only a deposit step
\* changes total_deposited and only a claim step changes total_claimed.
C12_TotalsMonotone ==
    [][ /\ b'.total_deposited >= b.total_deposited
        /\ b'.total_claimed >= b.total_claimed
        /\ b'.total_deposited # b.total_deposited => op' = "deposit"
        /\ b'.total_claimed # b.total_claimed => op' = "claim" ]_vars

\* C12 witness: a deposit has raised total_deposited to the maximum after an
\* earlier claim had raised total_claimed.
C12_Witness ==
    /\ op = "deposit"
    /\ arg > 0
    /\ b.total_claimed > 0
    /\ b.total_deposited = U128_MAX

\* C13: set_half_life continuity. A set_half_life(h) step settles under the
\* old rate and then replaces the rate: still_vesting() and claimable() at
\* the current clock reading are the same before and after, both totals are
\* unchanged, and the snapshot holds what had decayed under the old rate.
C13_SetHalfLifeContinuous ==
    [][ op' = "set_half_life" =>
            /\ balance_still_vesting(b', t') = balance_still_vesting(b, t)
            /\ balance_claimable(b', t') = balance_claimable(b, t)
            /\ b'.total_deposited = b.total_deposited
            /\ b'.total_claimed = b.total_claimed
            /\ b'.last_update_principal = balance_still_vesting(b, t)
            /\ b'.last_update_timestamp = t
            /\ b'.decay_rate_per_second = decay_rate_from_half_life(arg') ]_vars

\* C13 witness: the half-life was changed some time after the last
\* settlement, with part of the deposit vested and part still vesting.
C13_Witness ==
    /\ op = "set_half_life"
    /\ t > 0
    /\ still_vesting > 0
    /\ claimable > 0
    /\ F64Exact(b.total_deposited)

\* C14: claim takes nothing from the vesting pool. Across a claim() step
\* still_vesting() at the current clock reading, total_deposited and the
\* decay rate are unchanged.
C14_ClaimKeepsVesting ==
    [][ op' = "claim" =>
            /\ balance_still_vesting(b', t') = balance_still_vesting(b, t)
            /\ b'.total_deposited = b.total_deposited
            /\ b'.decay_rate_per_second = b.decay_rate_per_second
            /\ b'.last_update_principal = balance_still_vesting(b, t)
            /\ b'.last_update_timestamp = t ]_vars

\* C14 witness: a claim paid out the vested part and the rest of the
\* deposit is still vesting, to the unit.
C14_Witness ==
    /\ op = "claim"
    /\ ret > 0
    /\ t > 0
    /\ still_vesting > 0
    /\ F64Exact(b.total_deposited)
    /\ b.total_deposited = b.total_claimed + still_vesting

\* C15: settlement is the single point where the snapshot moves. Right
\* after a settle, claim or set_half_life step last_update_timestamp is
\* now() and last_update_principal is what was still vesting at that
\* instant; after a deposit step it is that plus the amount; a clock advance
\* leaves both snapshot fields unchanged.
C15_SnapshotAtSettlement ==
    [][ /\ op' \in {"settle", "claim", "set_half_life"} =>
              /\ b'.last_update_timestamp = t'
              /\ b'.last_update_principal = balance_still_vesting(b, t)
        /\ op' = "deposit" =>
              /\ b'.last_update_timestamp = t'
              /\ b'.last_update_principal = balance_still_vesting(b, t) + arg'
        /\ op' = "wait" =>
              /\ b'.last_update_timestamp = b.last_update_timestamp
              /\ b'.last_update_principal = b.last_update_principal ]_vars

\* C15 as amended: the same, the sum after a deposit saturating at the
\* maximum amount.
C15_SnapshotAtSettlementSat ==
    [][ /\ op' \in {"settle", "claim", "set_half_life"} =>
              /\ b'.last_update_timestamp = t'
              /\ b'.last_update_principal = balance_still_vesting(b, t)
        /\ op' = "deposit" =>
              /\ b'.last_update_timestamp = t'
              /\ b'.last_update_principal =
                    (IF balance_still_vesting(b, t) + arg' > U128_MAX
                     THEN U128_MAX
                     ELSE balance_still_vesting(b, t) + arg')
        /\ op' = "wait" =>
              /\ b'.last_update_timestamp = b.last_update_timestamp
              /\ b'.last_update_principal = b.last_update_principal ]_vars

\* C15 witness: a deposit made at a later clock reading merged with what
\* was still vesting, and the snapshot was taken at that reading.
C15_Witness ==
    /\ op = "deposit"
    /\ t > 0
    /\ arg > 0
    /\ b.last_update_timestamp = t
    /\ b.last_update_principal > arg
    /\ F64Exact(b.total_deposited)
    /\ b.last_update_principal < b.total_deposited

\* C16: saturating deposit. A deposit(amount) step sets total_deposited to
\* min(U128_MAX, total_deposited + amount) and last_update_principal to
\* min(U128_MAX, settled still-vesting + amount); neither wraps.
C16_DepositSaturates ==
    [][ op' = "deposit" =>
            /\ b'.total_deposited =
                  (IF b.total_deposited + arg' > U128_MAX
                   THEN U128_MAX
                   ELSE b.total_deposited + arg')
            /\ b'.last_update_principal =
                  (IF settle(b, t).last_update_principal + arg' > U128_MAX
                   THEN U128_MAX
                   ELSE settle(b, t).last_update_principal + arg')
            /\ b'.total_deposited >= b.total_deposited
            /\ b'.last_update_principal >= settle(b, t).last_update_principal ]_vars

\* C16 witness: a deposit smaller than the maximum has driven both
\* total_deposited and the principal to the maximum.
C16_Witness ==
    /\ op = "deposit"
    /\ arg > 0
    /\ arg < U128_MAX
    /\ b.total_deposited = U128_MAX
    /\ b.last_update_principal = U128_MAX
    /\ b.total_claimed > 0

ClockRoomToVest ==
    Pow(2, U64_MAX - b.last_update_timestamp)
        > Pow(as_f64(b.last_update_principal), MAX_HALF_LIFE)

C18_BackwardClockClamped ==
    [][ t < b.last_update_timestamp =>
            /\ balance_still_vesting(b, t) = b.last_update_principal
            /\ op' \in {"settle", "deposit", "claim"} =>
                  b'.last_update_timestamp = t ]_vars

====
